---- MODULE Spec2Model ----
(***************************************************************************)
(* Model of fabfile.py of sphinx-bootstrap-theme: the release tasks        *)
(* clean, gh_bundle, gh_upload (with the GitHub downloads client), the     *)
(* _dist_wrapper context manager behind sdist / pypi_register /            *)
(* pypi_upload, and get_suffix.                                            *)
(*                                                                         *)
(* Three specifications share the variables:                               *)
(*   Spec        clean, gh_bundle and gh_upload against the remote         *)
(*               download list (one network call per step);                *)
(*   SpecDist    the _dist_wrapper tasks, one shell command per step;      *)
(*   SpecSuffix  get_suffix over every tag value and bounded git outputs.  *)
(***************************************************************************)
EXTENDS Integers, Sequences, FiniteSets, TLC

VARIABLES
    dirs,        \* build directories that exist locally (subset of BUILD_DIRS)
    zips,        \* zip files that exist under build/ (paths)
    cleanedFrom, \* the directories that existed when the last clean started
    describeOut, \* stdout of `git describe --always --tag` in this checkout
    headOut,     \* stdout of `git rev-parse HEAD` in this checkout
    task,        \* the task that ran last / is running
    status,      \* "none", "running", "ok", "aborted"
    pc,          \* position inside the running task
    tagArg,      \* the tag argument of the last get_suffix call
    cmdRun,      \* the command get_suffix handed to local()
    suffix,      \* the value get_suffix returned
    remote,      \* the repository's download records on the server
    stored,      \* ids of records whose file content reached storage
    nextId,      \* the id the server gives the next created record
    listed,      \* TRUE once github.downloads() has returned in this run
    dls,         \* the list github.downloads() returned
    dl_suffix,   \* dl_dict.get(suffix_file)
    dl_base,     \* dl_dict.get(base_file)
    cur,         \* 1: uploading base_zip, 2: uploading suffix_zip
    meta,        \* the metadata the create POST returned, plus file_path
    log,         \* the network calls of this run, in order
    rsts,        \* the .rst files that exist locally
    txts,        \* the .txt files that exist locally
    dtask,       \* the packaging task using _dist_wrapper
    dpc,         \* position inside _dist_wrapper
    didx,        \* loop index inside _dist_wrapper
    derr,        \* where the abort propagating through the finally block arose, or "none"
    dstatus      \* "none", "running", "ok", "aborted"

vars == <<dirs, zips, cleanedFrom, describeOut, headOut, task, status, pc,
          tagArg, cmdRun, suffix, remote, stored, nextId, listed, dls,
          dl_suffix, dl_base, cur, meta, log, rsts, txts, dtask, dpc, didx,
          derr, dstatus>>

fsVars   == <<dirs, zips, cleanedFrom>>
gitVars  == <<describeOut, headOut>>
sfxVars  == <<tagArg, cmdRun, suffix>>
srvVars  == <<remote, stored, nextId>>
runVars  == <<listed, dls, dl_suffix, dl_base, cur, meta, log>>
distVars == <<rsts, txts, dtask, dpc, didx, derr, dstatus>>

----------------------------------------------------------------------------
(* Bounds *)

\* longest raw git output explored by SpecSuffix
MaxRaw == 3
\* largest record id the server hands out in Spec
MaxId == 4

----------------------------------------------------------------------------
(* Constants of the program *)

BUILD_DIRS == <<"dist", "build", "demo/build", "sphinx_bootstrap_theme.egg-info">>

SDIST_RST_FILES == <<"README.rst", "HISTORY.rst">>

\* os.path.splitext(x)[0] + ".txt"
SplitextTxt(x) ==
    CASE x = "README.rst"  -> "README.txt"
      [] x = "HISTORY.rst" -> "HISTORY.txt"

SDIST_TXT_FILES == [i \in 1..Len(SDIST_RST_FILES) |-> SplitextTxt(SDIST_RST_FILES[i])]

Range(s) == {s[i] : i \in 1..Len(s)}

----------------------------------------------------------------------------
(* get_suffix *)

\* characters of a git output; " " and "\n" are whitespace
Whitespace == {" ", "\n"}
Chars == {"a", " ", "\n"}

RECURSIVE SeqsUpTo(_)
SeqsUpTo(n) ==
    IF n = 0 THEN {<<>>}
    ELSE LET shorter == SeqsUpTo(n - 1)
         IN  shorter \cup {Append(s, c) : s \in {t \in shorter : Len(t) = n - 1}, c \in Chars}

RawOutputs == SeqsUpTo(MaxRaw)

\* values of the tag argument: Python booleans, and the strings fab passes
PyTrue  == <<"bool", "True">>
PyFalse == <<"bool", "False">>
Tags == {PyTrue, PyFalse, <<"str", "True">>, <<"str", "true">>, <<"str", "1">>,
         <<"str", "False">>, <<"str", "">>}

\* Python truth value of a tag
Truthy(tag) == IF tag[1] = "bool" THEN tag[2] = "True" ELSE tag[2] # ""

RECURSIVE LStrip(_)
LStrip(s) == IF s # <<>> /\ Head(s) \in Whitespace THEN LStrip(Tail(s)) ELSE s

RECURSIVE RStrip(_)
RStrip(s) ==
    IF s # <<>> /\ s[Len(s)] \in Whitespace THEN RStrip(SubSeq(s, 1, Len(s) - 1)) ELSE s

\* mutation: only trailing whitespace is removed
StripRightOnly(s) == RStrip(s)

\* str.strip()
Strip(s) == LStrip(RStrip(s))

\* tag in (True, "True")
UseDescribe(tag) == tag \in {PyTrue, <<"str", "True">>}

DescribeCmd == "git describe --always --tag"
RevParseCmd == "git rev-parse HEAD"

SuffixCmd(tag) == IF UseDescribe(tag) THEN DescribeCmd ELSE RevParseCmd

\* stdout of a suffix command in a checkout
LocalCapture(cmd, dOut, hOut) == IF cmd = DescribeCmd THEN dOut ELSE hOut

GetSuffix(tag, dOut, hOut) == Strip(LocalCapture(SuffixCmd(tag), dOut, hOut))

----------------------------------------------------------------------------
(* File names of gh_bundle / gh_upload *)

base_zip == <<"build/", "bootstrap", ".zip">>

SuffixZip(sfx) == <<"build/", "bootstrap", "-">> \o sfx \o <<".zip">>

\* os.path.basename of a path under build/
Basename(path) == IF path # <<>> /\ Head(path) = "build/" THEN Tail(path) ELSE path

base_file == Basename(base_zip)

SuffixFile(sfx) == Basename(SuffixZip(sfx))

----------------------------------------------------------------------------
(* clean *)

BuildDirSet == Range(BUILD_DIRS)

\* the local file system as the shell commands see it
Fs(d, z) == [ok |-> TRUE, dirs |-> d, zips |-> z]

\* mutation: `rm -r`, which fails on a directory that does not exist
LocalRmR(dir, fs) ==
    IF dir \in fs.dirs
    THEN [ok |-> TRUE, dirs |-> fs.dirs \ {dir}, zips |-> IF dir = "build" THEN {} ELSE fs.zips]
    ELSE [ok |-> FALSE, dirs |-> fs.dirs, zips |-> fs.zips]

\* local("rm -rf %s"): exit status 0 whether or not the directory exists;
\* removing build/ removes the zip files in it
LocalRmRf(dir, fs) ==
    [ok   |-> TRUE,
     dirs |-> fs.dirs \ {dir},
     zips |-> IF dir = "build" THEN {} ELSE fs.zips]

\* the loop of clean from index i on; a failing local() aborts the run
RECURSIVE CleanFrom(_, _)
CleanFrom(i, fs) ==
    IF i > Len(BUILD_DIRS) THEN fs
    ELSE LET r == LocalRmRf(BUILD_DIRS[i], fs)
         IN  IF r.ok THEN CleanFrom(i + 1, r) ELSE r

CleanFs(fs) == CleanFrom(1, fs)

----------------------------------------------------------------------------
(* gh_bundle *)

\* where a gh_bundle run can abort: one value per local() call, "none" for
\* a run in which every command succeeds
BundleStops == {"suffix", "mkdir", "zip", "cp", "unzip", "none"}

\* the file system after gh_bundle, aborted at `stop`
BundleFs(fs, sfx, stop) ==
    LET cleaned == CleanFs(fs)
        made    == [cleaned EXCEPT !.dirs = @ \cup {"build"}]
        zipped  == [made EXCEPT !.zips = @ \cup {base_zip}]
        copied  == [zipped EXCEPT !.zips = @ \cup {SuffixZip(sfx)}]
    IN  CASE stop = "suffix"  -> [fs EXCEPT !.ok = FALSE]
          [] ~cleaned.ok      -> cleaned
          [] stop = "mkdir"   -> [cleaned EXCEPT !.ok = FALSE]
          [] stop = "zip"     -> [made EXCEPT !.ok = FALSE]
          [] stop = "cp"      -> [zipped EXCEPT !.ok = FALSE]
          [] stop = "unzip"   -> [copied EXCEPT !.ok = FALSE]
          [] OTHER            -> copied

----------------------------------------------------------------------------
(* GitHub downloads client and gh_upload *)

None == [id |-> 0, name |-> <<>>]
NoMeta == [id |-> 0, name |-> <<>>, file_path |-> <<>>]
NoSuffix == <<"None">>

\* outcomes of one HTTP request or one curl run: "ok", the call returns;
\* "fail", urlopen raises or curl exits nonzero, and the run aborts
Outcomes == {"ok", "fail"}

Ev(op, name, id, res, dup) == [op |-> op, name |-> name, id |-> id, res |-> res, dup |-> dup]

HasName(list, name) == \E r \in list : r.name = name

\* dict((x['name'], x) for x in list).get(name): the record of that name
\* (any of them, should the list hold several), or None
DictGet(list, name) ==
    IF HasName(list, name) THEN {r \in list : r.name = name} ELSE {None}

\* mutation: one file found is enough
LocalFilesAny(z, sfx) == base_zip \in z \/ SuffixZip(sfx) \in z

\* os.path.exists(base_zip) and os.path.exists(suffix_zip)
LocalFilesOk(z, sfx) == base_zip \in z /\ SuffixZip(sfx) \in z

\* mutation: the suffixed download is not looked at
AfterListNoSkip(s, b) == IF b # None THEN "del" ELSE "create"

\* mutation: the base download is never removed
AfterListNoDelete(s, b) == IF s # None THEN "return" ELSE "create"

\* what gh_upload does once the list is indexed
AfterList(s, b) ==
    IF s # None THEN "return"
    ELSE IF b # None THEN "del"
    ELSE "create"

\* mutation: the suffixed zip goes first
PutOrderSwapped(sfx) == <<SuffixZip(sfx), base_zip>>

\* the files gh_upload uploads, in order
PutOrder(sfx) == <<base_zip, SuffixZip(sfx)>>

\* mutation: the form upload is filled from the record found in the list
UploadFromListed(m, b) ==
    IF b # None THEN [id |-> b.id, name |-> b.name, file_path |-> m.file_path] ELSE m

\* the mapping the curl command line is formatted from
UploadRecord(m, b) == m

\* mutation: a failed create POST does not stop downloads_put
AfterCreateAlways(outcome) == "upload"

\* downloads_put after the create POST: api_op raises unless the request succeeded
AfterCreate(outcome) == IF outcome = "ok" THEN "upload" ELSE "abort"

Idle == status # "running" /\ dstatus # "running"

ResetRun ==
    /\ listed' = FALSE
    /\ dls' = {}
    /\ dl_suffix' = None
    /\ dl_base' = None
    /\ cur' = 0
    /\ meta' = NoMeta
    /\ log' = <<>>

Clean ==
    /\ Idle
    /\ LET r == CleanFs(Fs(dirs, zips))
       IN  /\ dirs' = r.dirs
           /\ zips' = r.zips
           /\ status' = IF r.ok THEN "ok" ELSE "aborted"
    /\ cleanedFrom' = dirs
    /\ task' = "clean"
    /\ pc' = "done"
    /\ suffix' = NoSuffix
    /\ ResetRun
    /\ UNCHANGED <<gitVars, tagArg, cmdRun, srvVars, distVars>>

GhBundle ==
    /\ Idle
    /\ \E tag \in Tags, stop \in BundleStops :
          LET sfx == GetSuffix(tag, describeOut, headOut)
              r   == BundleFs(Fs(dirs, zips), sfx, stop)
          IN  /\ dirs' = r.dirs
              /\ zips' = r.zips
              /\ status' = IF r.ok THEN "ok" ELSE "aborted"
              /\ suffix' = IF stop = "suffix" THEN NoSuffix ELSE sfx
    /\ cleanedFrom' = {}
    /\ task' = "gh_bundle"
    /\ pc' = "done"
    /\ ResetRun
    /\ UNCHANGED <<gitVars, tagArg, cmdRun, srvVars, distVars>>

\* gh_upload up to the check of the local files
GhUploadStart ==
    /\ Idle
    /\ nextId + 1 <= MaxId
    /\ task' = "gh_upload"
    /\ cleanedFrom' = {}
    /\ ResetRun
    /\ \E tag \in Tags, gitOk \in BOOLEAN :
          LET sfx == GetSuffix(tag, describeOut, headOut)
          IN  IF ~gitOk
              THEN suffix' = NoSuffix /\ status' = "aborted" /\ pc' = "done"
              ELSE /\ suffix' = sfx
                   /\ IF LocalFilesOk(zips, sfx)
                      THEN status' = "running" /\ pc' = "list"
                      ELSE status' = "aborted" /\ pc' = "done"
    /\ UNCHANGED <<dirs, zips, gitVars, tagArg, cmdRun, srvVars, distVars>>

\* GitHub(), github.downloads(), the two lookups and the skip
GhList ==
    /\ status = "running" /\ pc = "list"
    /\ \E outcome \in {"noconfig", "fail", "ok"} :
          CASE outcome = "noconfig" ->
                 /\ status' = "aborted" /\ pc' = "done"
                 /\ UNCHANGED runVars
            [] outcome = "fail" ->
                 /\ log' = Append(log, Ev("list", <<>>, 0, "fail", FALSE))
                 /\ status' = "aborted" /\ pc' = "done"
                 /\ UNCHANGED <<listed, dls, dl_suffix, dl_base, cur, meta>>
            [] OTHER ->
                 /\ log' = Append(log, Ev("list", <<>>, 0, "ok", FALSE))
                 /\ listed' = TRUE
                 /\ dls' = remote
                 /\ \E s \in DictGet(remote, SuffixFile(suffix)),
                       b \in DictGet(remote, base_file) :
                       /\ dl_suffix' = s
                       /\ dl_base' = b
                       /\ CASE AfterList(s, b) = "return" ->
                                 status' = "ok" /\ pc' = "done" /\ cur' = cur
                            [] AfterList(s, b) = "del" ->
                                 status' = status /\ pc' = "del" /\ cur' = cur
                            [] OTHER ->
                                 status' = status /\ pc' = "create" /\ cur' = 1
                 /\ meta' = meta
    /\ UNCHANGED <<fsVars, gitVars, task, sfxVars, srvVars, distVars>>

\* github.downloads_del(dl_base)
GhDelete ==
    /\ status = "running" /\ pc = "del"
    /\ \E outcome \in Outcomes :
          /\ log' = Append(log, Ev("delete", dl_base.name, dl_base.id, outcome, FALSE))
          /\ IF outcome = "ok"
             THEN /\ remote' = {r \in remote : r.id # dl_base.id}
                  /\ stored' = stored \ {dl_base.id}
             ELSE UNCHANGED <<remote, stored>>
          /\ IF outcome = "ok"
             THEN status' = status /\ pc' = "create" /\ cur' = 1
             ELSE status' = "aborted" /\ pc' = "done" /\ cur' = cur
    /\ UNCHANGED <<fsVars, gitVars, task, sfxVars, nextId, listed, dls,
                   dl_suffix, dl_base, meta, distVars>>

\* downloads_put, part 1: the create POST
GhCreate ==
    /\ status = "running" /\ pc = "create"
    /\ \E outcome \in Outcomes :
          LET file == PutOrder(suffix)[cur]
              name == Basename(file)
              id   == IF outcome = "ok" THEN nextId ELSE 0
          IN  /\ log' = Append(log, Ev("create", name, id, outcome, HasName(remote, name)))
              /\ IF outcome = "ok"
                 THEN /\ remote' = remote \cup {[id |-> nextId, name |-> name]}
                      /\ nextId' = nextId + 1
                 ELSE UNCHANGED <<remote, nextId>>
              /\ meta' = IF outcome = "ok"
                         THEN [id |-> nextId, name |-> name, file_path |-> file]
                         ELSE meta
              /\ IF AfterCreate(outcome) = "upload"
                 THEN status' = status /\ pc' = "upload"
                 ELSE status' = "aborted" /\ pc' = "done"
    /\ UNCHANGED <<fsVars, gitVars, task, sfxVars, stored, listed, dls,
                   dl_suffix, dl_base, cur, distVars>>

\* downloads_put, part 2: the curl form upload, and gh_upload's next step
GhUploadFile ==
    /\ status = "running" /\ pc = "upload"
    /\ \E outcome \in Outcomes :
          LET rec == UploadRecord(meta, dl_base)
          IN  /\ log' = Append(log, Ev("upload", rec.name, rec.id, outcome, FALSE))
              /\ stored' = IF outcome = "ok" /\ (\E r \in remote : r.id = rec.id)
                           THEN stored \cup {rec.id}
                           ELSE stored
              /\ CASE outcome # "ok" ->
                        status' = "aborted" /\ pc' = "done" /\ cur' = cur
                   [] cur < Len(PutOrder(suffix)) ->
                        status' = status /\ pc' = "create" /\ cur' = cur + 1
                   [] OTHER ->
                        status' = "ok" /\ pc' = "done" /\ cur' = cur
    /\ UNCHANGED <<fsVars, gitVars, task, sfxVars, remote, nextId, listed, dls,
                   dl_suffix, dl_base, meta, distVars>>

\* git outputs of the checkouts explored by Spec
RepoOutputs == {<<"a", "\n">>, <<" ", "b", "\n">>}

InitDist ==
    /\ rsts = Range(SDIST_RST_FILES)
    /\ txts = {}
    /\ dtask = "none"
    /\ dpc = "done"
    /\ didx = 0
    /\ derr = "none"
    /\ dstatus = "none"

InitRun ==
    /\ listed = FALSE
    /\ dls = {}
    /\ dl_suffix = None
    /\ dl_base = None
    /\ cur = 0
    /\ meta = NoMeta
    /\ log = <<>>

Init ==
    /\ dirs \in SUBSET BuildDirSet
    /\ zips = {}
    /\ cleanedFrom = {}
    /\ describeOut \in RepoOutputs
    /\ headOut \in RepoOutputs
    /\ task = "none"
    /\ status = "none"
    /\ pc = "done"
    /\ tagArg = PyFalse
    /\ cmdRun = "none"
    /\ suffix = NoSuffix
    /\ \E hasBase \in BOOLEAN :
          /\ remote = IF hasBase THEN {[id |-> 1, name |-> base_file]} ELSE {}
          /\ stored = IF hasBase THEN {1} ELSE {}
          /\ nextId = IF hasBase THEN 2 ELSE 1
    /\ InitRun
    /\ InitDist

Next ==
    \/ Clean
    \/ GhBundle
    \/ GhUploadStart
    \/ GhList
    \/ GhDelete
    \/ GhCreate
    \/ GhUploadFile

Spec == Init /\ [][Next]_vars

----------------------------------------------------------------------------
(* Properties of gh_upload, gh_bundle and clean, checked under Spec *)

LogOps == [i \in 1..Len(log) |-> <<log[i].op, log[i].name>>]

AllOk == \A i \in 1..Len(log) : log[i].res = "ok"

IsPrefix(s, t) == Len(s) <= Len(t) /\ SubSeq(t, 1, Len(s)) = s

InUpload == task = "gh_upload"

\* C1: when the fetched download list holds a record named
\* bootstrap-<suffix>.zip, the run makes no delete, create or upload call (the
\* list fetch is its only network call) and ends successfully, whether or not
\* a record named bootstrap.zip is listed too.
C1_SkipWhenSuffixPresent ==
    (InUpload /\ listed /\ HasName(dls, SuffixFile(suffix)))
        => /\ status = "ok"
           /\ LogOps = <<(<<"list", <<>>>>)>>
           /\ base_zip \in zips /\ SuffixZip(suffix) \in zips

C1_Witness ==
    /\ InUpload /\ listed /\ status = "ok"
    /\ HasName(dls, SuffixFile(suffix))
    /\ HasName(dls, base_file)

ReplaceOps(sfx) ==
    << <<"list", <<>>>>, <<"delete", base_file>>,
       <<"create", base_file>>, <<"upload", base_file>>,
       <<"create", SuffixFile(sfx)>>, <<"upload", SuffixFile(sfx)>> >>

C2_Pre ==
    /\ InUpload /\ listed
    /\ HasName(dls, base_file)
    /\ ~HasName(dls, SuffixFile(suffix))

\* C2: when the list holds bootstrap.zip but not bootstrap-<suffix>.zip and no
\* call fails, the calls of the run are: the list fetch, exactly one delete
\* (of the listed bootstrap.zip record), then the create and upload of the
\* base zip, then the create and upload of the suffixed zip.
C2_DeleteThenTwoUploads ==
    (C2_Pre /\ AllOk)
        => /\ IsPrefix(LogOps, ReplaceOps(suffix))
           /\ (status = "ok" => LogOps = ReplaceOps(suffix))
           /\ (status = "running" => Len(log) < Len(ReplaceOps(suffix)))
           /\ \A i \in 1..Len(log) :
                 log[i].op = "delete" =>
                    [id |-> log[i].id, name |-> base_file] \in dls

C2_Witness == C2_Pre /\ AllOk /\ status = "ok" /\ Len(log) = Len(ReplaceOps(suffix))

\* C3: when build/bootstrap.zip or build/bootstrap-<suffix>.zip is missing,
\* gh_upload aborts without a single network call.
C3_AbortBeforeNetwork ==
    (InUpload /\ suffix # NoSuffix /\ ~(base_zip \in zips /\ SuffixZip(suffix) \in zips))
        => /\ status = "aborted"
           /\ log = <<>>
           /\ ~listed

C3_Witness ==
    /\ InUpload /\ suffix # NoSuffix /\ status = "aborted"
    /\ base_zip \in zips
    /\ SuffixZip(suffix) \notin zips

\* C5: after clean none of the build directories exists and the run did not
\* abort, whichever of them existed before; cleaning again changes nothing.
C5_CleanRemovesAll ==
    /\ task = "clean" =>
          /\ status = "ok"
          /\ dirs \cap BuildDirSet = {}
          /\ CleanFs(Fs(dirs, zips)) = Fs(dirs, zips)
    /\ \A S \in SUBSET BuildDirSet :
          LET once == CleanFs(Fs(S, {}))
          IN  once.ok /\ once.dirs = {} /\ CleanFs(once) = once

C5_Witness ==
    /\ task = "clean" /\ status = "ok"
    /\ "build" \in cleanedFrom
    /\ "dist" \notin cleanedFrom
    /\ dirs = {}

\* C7: the remote list never holds two records named bootstrap.zip, and no
\* create POST for bootstrap.zip is sent while a record of that name exists.
C7_BaseNeverDuplicated ==
    /\ Cardinality({r \in remote : r.name = base_file}) <= 1
    /\ \A i \in 1..Len(log) :
          (log[i].op = "create" /\ log[i].name = base_file) => ~log[i].dup

C7_Witness ==
    /\ HasName(remote, base_file)
    /\ \E i, j \in 1..Len(log) :
          /\ i < j
          /\ log[i].op = "delete" /\ log[i].res = "ok"
          /\ log[j].op = "create" /\ log[j].name = base_file /\ log[j].res = "ok"

FreshOps(sfx) ==
    << <<"list", <<>>>>,
       <<"create", base_file>>, <<"upload", base_file>>,
       <<"create", SuffixFile(sfx)>>, <<"upload", SuffixFile(sfx)>> >>

\* C8: every form upload directly follows the successful create POST of the
\* same file and uses the metadata it returned; a failed create POST is the
\* last call of its run; with an empty remote list a successful run is exactly
\* list, create base, upload base, create suffixed, upload suffixed, no delete.
C8_TwoPhaseOrder ==
    /\ \A i \in 1..Len(log) :
          log[i].op = "upload" =>
             /\ i > 1
             /\ log[i - 1].op = "create"
             /\ log[i - 1].res = "ok"
             /\ log[i - 1].name = log[i].name
             /\ log[i - 1].id = log[i].id
    /\ \A i \in 1..Len(log) :
          (log[i].op = "create" /\ log[i].res # "ok") => i = Len(log)
    /\ (InUpload /\ listed /\ dls = {}) =>
          /\ IsPrefix(LogOps, FreshOps(suffix))
          /\ (status = "ok" => LogOps = FreshOps(suffix))

C8_Witness ==
    /\ InUpload /\ listed /\ dls = {} /\ status = "ok"
    /\ Len(log) = Len(FreshOps(suffix))

\* C9: after the delete call for a record, no later call of the run uses
\* that record's id.
C9_DeletedNotReferenced ==
    \A i, j \in 1..Len(log) :
        (i < j /\ log[i].op = "delete") => log[j].id # log[i].id

C9_Witness ==
    \E i, j \in 1..Len(log) :
        /\ i < j
        /\ log[i].op = "delete" /\ log[i].res = "ok"
        /\ log[j].op = "upload" /\ log[j].res = "ok"

Uploaded(name) == \E r \in remote : r.name = name /\ r.id \in stored

\* C10: in a checkout where every run computes the same suffix, a gh_upload
\* run that ends without error leaves bootstrap.zip and bootstrap-<suffix>.zip
\* on the remote, each with its content in storage.
C10_RerunRecovers ==
    (Strip(describeOut) = Strip(headOut) /\ InUpload /\ status = "ok")
        => Uploaded(base_file) /\ Uploaded(SuffixFile(suffix))

----------------------------------------------------------------------------
(* _dist_wrapper and the tasks that use it: sdist, pypi_register, pypi_upload *)

DistTasks == {"sdist", "pypi_register", "pypi_upload"}

\* the command each task runs inside the wrapper
DistCommand(t) ==
    CASE t = "sdist"         -> "python setup.py sdist"
      [] t = "pypi_register" -> "python setup.py register"
      [] t = "pypi_upload"   -> "python setup.py sdist upload"

\* outcomes of local("cp rst txt"): "ok"; "fail", no file written; "partial",
\* cp failed after creating the target. cp cannot succeed without its source.
CpOutcomes(rst, existing) == IF rst \in existing THEN {"ok", "fail", "partial"} ELSE {"fail"}

\* mutation: `rm`, which fails on a file that does not exist
LocalRm(file, existing) ==
    IF file \in existing
    THEN [ok |-> TRUE, files |-> existing \ {file}]
    ELSE [ok |-> FALSE, files |-> existing]

\* local("rm -f %s"): removes the file, exit status 0 also when it is missing
LocalRmF(file, existing) == [ok |-> TRUE, files |-> existing \ {file}]

\* entering `with _dist_wrapper():`
DistStart ==
    /\ dstatus # "running" /\ status # "running"
    /\ \E t \in DistTasks : dtask' = t
    /\ dpc' = "cp"
    /\ didx' = 1
    /\ derr' = "none"
    /\ dstatus' = "running"
    /\ UNCHANGED <<rsts, txts>>
    /\ UNCHANGED <<fsVars, gitVars, task, status, pc, sfxVars, srvVars, runVars>>

\* one iteration of the copy loop
DistCp ==
    /\ dstatus = "running" /\ dpc = "cp"
    /\ LET rst == SDIST_RST_FILES[didx]
           txt == SDIST_TXT_FILES[didx]
       IN  \E outcome \in CpOutcomes(rst, rsts) :
              /\ txts' = IF outcome = "fail" THEN txts ELSE txts \cup {txt}
              /\ IF outcome # "ok"
                 THEN derr' = "cp" /\ dpc' = "finally" /\ didx' = 1
                 ELSE /\ derr' = derr
                      /\ IF didx < Len(SDIST_RST_FILES)
                         THEN dpc' = dpc /\ didx' = didx + 1
                         ELSE dpc' = "action" /\ didx' = didx
    /\ UNCHANGED <<rsts, dtask, dstatus>>
    /\ UNCHANGED <<fsVars, gitVars, task, status, pc, sfxVars, srvVars, runVars>>

\* the body of the with block: local(DistCommand(dtask), capture=False)
DistAction ==
    /\ dstatus = "running" /\ dpc = "action"
    /\ DistCommand(dtask) # ""
    /\ \E ok \in BOOLEAN : derr' = IF ok THEN "none" ELSE "action"
    /\ dpc' = "finally"
    /\ didx' = 1
    /\ UNCHANGED <<rsts, txts, dtask, dstatus>>
    /\ UNCHANGED <<fsVars, gitVars, task, status, pc, sfxVars, srvVars, runVars>>

\* one iteration of the loop of the finally block; leaving the block
\* re-raises the abort that entered it
DistRm ==
    /\ dstatus = "running" /\ dpc = "finally"
    /\ LET r == LocalRmF(SDIST_TXT_FILES[didx], txts)
       IN  /\ txts' = r.files
           /\ IF ~r.ok
              THEN dstatus' = "aborted" /\ dpc' = "done" /\ didx' = didx
              ELSE IF didx < Len(SDIST_TXT_FILES)
                   THEN dstatus' = dstatus /\ dpc' = dpc /\ didx' = didx + 1
                   ELSE /\ dstatus' = IF derr = "none" THEN "ok" ELSE "aborted"
                        /\ dpc' = "done"
                        /\ didx' = didx
    /\ UNCHANGED <<rsts, dtask, derr>>
    /\ UNCHANGED <<fsVars, gitVars, task, status, pc, sfxVars, srvVars, runVars>>

InitDistFiles ==
    /\ rsts \in SUBSET Range(SDIST_RST_FILES)
    /\ txts \in SUBSET Range(SDIST_TXT_FILES)
    /\ dtask = "none"
    /\ dpc = "done"
    /\ didx = 0
    /\ derr = "none"
    /\ dstatus = "none"

InitRest ==
    /\ dirs = {}
    /\ zips = {}
    /\ cleanedFrom = {}
    /\ task = "none"
    /\ status = "none"
    /\ pc = "done"
    /\ remote = {}
    /\ stored = {}
    /\ nextId = 1
    /\ InitRun

InitSfx ==
    /\ tagArg = PyFalse
    /\ cmdRun = "none"
    /\ suffix = NoSuffix

SpecDistInit ==
    /\ InitDistFiles
    /\ InitRest
    /\ InitSfx
    /\ describeOut = <<>>
    /\ headOut = <<>>

SpecDistNext ==
    \/ DistStart
    \/ DistCp
    \/ DistAction
    \/ DistRm

SpecDist == SpecDistInit /\ [][SpecDistNext]_vars

\* C4: once a run of the wrapper is over, README.txt and HISTORY.txt are both
\* absent, whether the copies and the inner command succeeded or failed.
C4_TxtFilesRemoved ==
    (dtask \in DistTasks /\ dstatus \in {"ok", "aborted"})
        => /\ txts \cap Range(SDIST_TXT_FILES) = {}
           /\ (dstatus = "ok" <=> derr = "none")

C4_Witness ==
    /\ dtask \in DistTasks
    /\ dstatus = "aborted"
    /\ derr = "action"
    /\ txts = {}

----------------------------------------------------------------------------
(* get_suffix over every tag value *)

GetSuffixCall ==
    /\ status # "running" /\ dstatus # "running"
    /\ \E tag \in Tags :
          /\ tagArg' = tag
          /\ cmdRun' = SuffixCmd(tag)
          /\ suffix' = GetSuffix(tag, describeOut, headOut)
    /\ UNCHANGED <<fsVars, gitVars, task, status, pc, srvVars, runVars, distVars>>

SpecSuffixInit ==
    /\ describeOut \in RawOutputs
    /\ headOut \in RawOutputs
    /\ InitSfx
    /\ InitRest
    /\ InitDist

SpecSuffixNext == GetSuffixCall

SpecSuffix == SpecSuffixInit /\ [][SpecSuffixNext]_vars

Called == cmdRun # "none"

\* the output of the command that was run
RawOf(cmd) == IF cmd = DescribeCmd THEN describeOut ELSE headOut

\* s is raw without its leading and trailing whitespace
IsTrimOf(s, raw) ==
    /\ s = <<>> \/ (s[1] \notin Whitespace /\ s[Len(s)] \notin Whitespace)
    /\ \E i \in 0..Len(raw) :
          /\ i + Len(s) <= Len(raw)
          /\ SubSeq(raw, i + 1, i + Len(s)) = s
          /\ \A k \in 1..Len(raw) : (k <= i \/ k > i + Len(s)) => raw[k] \in Whitespace

\* C6 as claimed: the describe query runs exactly when tag is truthy.
C6_TruthySelectsDescribe ==
    Called =>
        /\ cmdRun = (IF Truthy(tagArg) THEN DescribeCmd ELSE RevParseCmd)
        /\ IsTrimOf(suffix, RawOf(cmdRun))

\* C6 amended: the describe query runs exactly when tag is the boolean True
\* or the string "True"; every other value, the truthy strings "true", "1" and
\* "False" included, runs the current-commit query; the result is that
\* query's output without leading and trailing whitespace.
C6_TrueSelectsDescribe ==
    Called =>
        /\ cmdRun \in {DescribeCmd, RevParseCmd}
        /\ cmdRun = DescribeCmd <=> tagArg \in {<<"bool", "True">>, <<"str", "True">>}
        /\ IsTrimOf(suffix, RawOf(cmdRun))

C6_Witness ==
    /\ Called
    /\ tagArg = <<"str", "true">>
    /\ cmdRun = RevParseCmd
    /\ headOut = <<" ", "a", "\n">>
    /\ suffix = <<"a">>

====
